---------------------------- MODULE Spec2Model ----------------------------
(* A model of dgroc (src/dgroc.py): the release mutation of a spec file,   *)
(* the resolution of an archive name from command output, the per-project  *)
(* pipeline of generate_new_srpm and the submission and monitoring loop of *)
(* main.  Text is modelled as a sequence of one-character strings, so that *)
(* split, strip, substring search and int/str conversions are computed as  *)
(* Python computes them.                                                   *)
EXTENDS Integers, Sequences, FiniteSets, TLC

VARIABLES
    spec_file,   \* content of the spec file on disk, a sequence of characters
    us_last,     \* record of the latest update_spec call
    us_calls,    \* number of update_spec calls made so far
    ga_in,       \* the archive command's run an archive call is applied to
    ga_last,     \* record of the latest _get_archive_name / generate_archive call
    cwd,         \* the process working directory
    folder_files, \* archive files present in the working copy (git_folder)
    sourcedir,   \* archive files present in rpm's %_sourcedir
    pc,          \* where main or generate_new_srpm stands
    idx,         \* position of main's loop in config.sections()
    args,        \* the command line flags srpmonly and monitoring
    cfg,         \* the options of the section being processed
    first,       \* the parameter `first` of the running generate_new_srpm call
    folder_exists, \* whether the working copy exists on disk
    commit,      \* commit_hash once read, <<>> before
    gns_archive, \* archive_name of generate_new_srpm once generate_archive returned
    saved_cwd,   \* the local `cwd` of generate_new_srpm
    ret,         \* the value the running call returns
    retry,       \* what the recursive call of line 329 returned
    ops,         \* counts of the operations made for the section being processed
    err,         \* the exception raised, "" when none
    attempted,   \* the sections main passed to generate_new_srpm, in order
    srpms,       \* main's dictionary srpms
    submitted,   \* the submissions copr_build attempted, in order
    build_ids,   \* main's build_ids: whether it is bound, and the list
    mon          \* the monitoring loop: rounds made, handles and statuses of the last round

usVars == <<spec_file, us_last, us_calls>>
gaVars == <<ga_in, ga_last>>
fsVars == <<cwd, folder_files, sourcedir>>
gnsVars == <<cfg, first, folder_exists, commit, gns_archive, saved_cwd, ret, retry, ops>>
mainVars == <<pc, idx, args, err, attempted, srpms, submitted, build_ids, mon>>
vars == <<spec_file, us_last, us_calls, ga_in, ga_last, cwd, folder_files, sourcedir,
          pc, idx, args, cfg, first, folder_exists, commit, gns_archive, saved_cwd, ret,
          retry, ops, err, attempted, srpms, submitted, build_ids, mon>>

-----------------------------------------------------------------------------
(* Python string primitives                                                *)

Whitespace == {" ", "\n", "\t"}
Digits == <<"0","1","2","3","4","5","6","7","8","9">>
DigitSet == {Digits[i] : i \in 1..10}

SetMin(S) == CHOOSE x \in S : \A y \in S : x <= y
SetMax(S) == CHOOSE x \in S : \A y \in S : x >= y

\* s.find(sep) + 1, and 0 when sep does not occur in s
Find(s, sep) ==
    LET c == {i \in 1..(Len(s) + 1 - Len(sep)) : SubSeq(s, i, i + Len(sep) - 1) = sep}
    IN IF c = {} THEN 0 ELSE SetMin(c)

\* sub in s
Contains(s, sub) == Find(s, sub) # 0

\* s.startswith(p)
StartsWith(s, p) == Len(s) >= Len(p) /\ SubSeq(s, 1, Len(p)) = p

\* s.split(sep), sep not empty
RECURSIVE Split(_, _)
Split(s, sep) ==
    LET i == Find(s, sep)
    IN IF i = 0 THEN <<s>>
       ELSE <<SubSeq(s, 1, i - 1)>> \o Split(SubSeq(s, i + Len(sep), Len(s)), sep)

\* sep.join(list)
RECURSIVE Join(_, _)
Join(list, sep) ==
    IF list = <<>> THEN <<>>
    ELSE IF Len(list) = 1 THEN list[1]
    ELSE list[1] \o sep \o Join(Tail(list), sep)

\* s.rstrip()
RECURSIVE RStrip(_)
RStrip(s) ==
    IF s # <<>> /\ s[Len(s)] \in Whitespace THEN RStrip(SubSeq(s, 1, Len(s) - 1)) ELSE s

RECURSIVE LStrip(_)
LStrip(s) ==
    IF s # <<>> /\ s[1] \in Whitespace THEN LStrip(Tail(s)) ELSE s

\* s.strip()
Strip(s) == LStrip(RStrip(s))

\* s.isdigit()
IsDigit(s) == s # <<>> /\ \A i \in 1..Len(s) : s[i] \in DigitSet

DigitVal(c) == (CHOOSE i \in 1..10 : Digits[i] = c) - 1

\* int(s) for a string of digits
RECURSIVE PyInt(_)
PyInt(s) ==
    IF s = <<>> THEN 0
    ELSE 10 * PyInt(SubSeq(s, 1, Len(s) - 1)) + DigitVal(s[Len(s)])

\* str(n) for a natural number
RECURSIVE PyStr(_)
PyStr(n) ==
    IF n < 10 THEN <<Digits[n + 1]>>
    ELSE PyStr(n \div 10) \o <<Digits[(n % 10) + 1]>>

\* the lines a file iteration yields: each keeps its line terminator
RECURSIVE ReadLines(_)
ReadLines(content) ==
    LET i == Find(content, <<"\n">>)
    IN IF content = <<>> THEN <<>>
       ELSE IF i = 0 THEN <<content>>
       ELSE <<SubSeq(content, 1, i)>> \o ReadLines(SubSeq(content, i + 1, Len(content)))

\* stream.write(row + '\n') for every row
RECURSIVE WriteLines(_)
WriteLines(rows) ==
    IF rows = <<>> THEN <<>>
    ELSE rows[1] \o <<"\n">> \o WriteLines(Tail(rows))

-----------------------------------------------------------------------------
(* update_spec                                                             *)

ReleaseKw == <<"R","e","l","e","a","s","e",":">>
VersionKw == <<"V","e","r","s","i","o","n",":">>
SourceKw == <<"S","o","u","r","c","e","0",":">>
ChangelogKw == <<"%","c","h","a","n","g","e","l","o","g">>
DistOpen == <<"%","{","?","d","i","s","t">>
DistMacro == <<"%","{","?","d","i","s","t","}">>
ReleasePad == <<"R","e","l","e","a","s","e",":"," "," "," "," "," "," "," "," ">>
SourcePad == <<"S","o","u","r","c","e","0",":"," "," "," "," "," "," "," "," ">>
NoneStr == <<"N","o","n","e">>
DistValue == <<".","f","c","2","0">>

GitReader == [short |-> <<"g","i","t">>]
MercurialReader == [short |-> <<"h","g">>]

\* rpm.expandMacro: the distribution macro is the only macro the model's text uses
ExpandMacro(s) == Join(Split(s, DistMacro), DistValue)

\* '%s%s%s' % (date.today().strftime('%Y%m%d'), reader.short, commit_hash)
ReleaseToken(today, reader, commit_hash) == today.ymd \o reader.short \o commit_hash

\* the release number of a Release: row before the bump
ReleaseValue(row) == Split(Strip(Split(row, <<"a","s","e",":">>)[2]), DistOpen)[1]

\* mutant of DropTag: a trailing component with the backend tag is kept
DropTag_keep(rel_list, reader) == rel_list

\* if reader.short in rel_list[-1]: rel_list = rel_list[:-1]
DropTag(rel_list, reader) ==
    IF Contains(rel_list[Len(rel_list)], reader.short)
    THEN SubSeq(rel_list, 1, Len(rel_list) - 1) ELSE rel_list

\* mutant of BumpLast: the numeric component is not incremented
BumpLast_nobump(rel_list) == rel_list

\* if rel_list[-1].isdigit(): rel_list[-1] = str(int(rel_list[-1])+1)
BumpLast(rel_list) ==
    IF rel_list # <<>> /\ IsDigit(rel_list[Len(rel_list)])
    THEN [rel_list EXCEPT ![Len(rel_list)] = PyStr(PyInt(rel_list[Len(rel_list)]) + 1)]
    ELSE rel_list

\* drop a trailing component carrying the backend tag, then increment a
\* numeric last component (BumpRaises tells when rel_list[-1] raises instead)
BumpRelease(rel_num, reader) ==
    Join(BumpLast(DropTag(Split(rel_num, <<".">>), reader)), <<".">>)

\* rel_list[-1] after the backend-tag component was dropped from a
\* one-component list raises IndexError
BumpRaises(rel_num, reader) ==
    LET rel_list == Split(rel_num, <<".">>)
    IN Len(rel_list) = 1 /\ Contains(rel_list[1], reader.short)

\* mutant of AlreadyUpToDate: the guard never fires
AlreadyUpToDate_never(row, commit_hash) == FALSE

\* if commit_hash in row: raise DgrocException('Spec already up to date')
AlreadyUpToDate(row, commit_hash) == Contains(row, commit_hash)

\* the changelog header line
ChangelogHeader(today, packager, email, version, rel_num, release) ==
    ExpandMacro(<<"*"," ">> \o today.text \o <<" ">> \o packager \o <<" ","<">> \o email
                \o <<">"," ","-"," ">> \o version \o <<"-">> \o rel_num \o <<".">> \o release)

ChangelogNote(reader, commit_hash) ==
    <<"-"," ","U","p","d","a","t","e"," ","t","o"," ">> \o reader.short \o <<":"," ">> \o commit_hash

ScanInit == [status |-> "ok", version |-> NoneStr, rel_num |-> <<>>, rel_set |-> FALSE,
             output |-> <<>>]

\* if row.startswith('Version:'): version = row.split('Version:')[1].strip()
VersionStep(st, row) ==
    IF StartsWith(row, VersionKw)
    THEN [st EXCEPT !.version = Strip(Split(row, VersionKw)[2])]
    ELSE st

\* row = 'Release:        %s.%s%%{?dist}' % (rel_num, release)
NewReleaseRow(st, rel_num, release) ==
    [st |-> [st EXCEPT !.rel_num = rel_num, !.rel_set = TRUE],
     row |-> ReleasePad \o rel_num \o <<".">> \o release \o DistMacro]

\* the body of `if row.startswith('Release:')`: the scan state and the row
ReleaseStep(st, row, release, commit_hash, reader) ==
    IF ~StartsWith(row, ReleaseKw) THEN [st |-> st, row |-> row]
    ELSE IF AlreadyUpToDate(row, commit_hash)
    THEN [st |-> [st EXCEPT !.status = "uptodate"], row |-> row]
    ELSE IF BumpRaises(ReleaseValue(row), reader)
    THEN [st |-> [st EXCEPT !.status = "error"], row |-> row]
    ELSE NewReleaseRow(st, BumpRelease(ReleaseValue(row), reader), release)

\* if row.startswith('Source0:'): row = 'Source0:        %s' % (archive_name)
SourceStep(row, archive_name) ==
    IF StartsWith(row, SourceKw) THEN SourcePad \o archive_name ELSE row

\* the body of `if row.startswith('%changelog')` and output.append(row); a
\* changelog marker before any Release: row reads the unbound rel_num
ChangelogStep(st, row, release, commit_hash, packager, email, reader, today) ==
    IF ~StartsWith(row, ChangelogKw) THEN [st EXCEPT !.output = Append(st.output, row)]
    ELSE IF ~st.rel_set THEN [st EXCEPT !.status = "error"]
    ELSE [st EXCEPT !.output = st.output \o
             <<row,
               ChangelogHeader(today, packager, email, st.version, st.rel_num, release),
               ChangelogNote(reader, commit_hash),
               <<>> >>]

\* the rest of the iteration after the Release: step, skipped when it raised
AfterRelease(sr, release, commit_hash, archive_name, packager, email, reader, today) ==
    IF sr.st.status # "ok" THEN sr.st
    ELSE ChangelogStep(sr.st, SourceStep(sr.row, archive_name), release, commit_hash,
                       packager, email, reader, today)

\* one iteration of the loop over the rows, on the stripped row
ProcessStripped(st, row, release, commit_hash, archive_name, packager, email, reader, today) ==
    AfterRelease(ReleaseStep(VersionStep(st, row), row, release, commit_hash, reader),
                 release, commit_hash, archive_name, packager, email, reader, today)

\* one iteration of the loop over the rows of the spec file
ProcessRow(st, raw, commit_hash, archive_name, packager, email, reader, today) ==
    ProcessStripped(st, RStrip(raw), ReleaseToken(today, reader, commit_hash),
                    commit_hash, archive_name, packager, email, reader, today)

\* the loop over the rows; it stops at the first exception
RECURSIVE ScanRows(_, _, _, _, _, _, _, _)
ScanRows(st, rows, commit_hash, archive_name, packager, email, reader, today) ==
    IF rows = <<>> \/ st.status # "ok" THEN st
    ELSE ScanRows(ProcessRow(st, rows[1], commit_hash, archive_name, packager, email, reader, today),
                  Tail(rows), commit_hash, archive_name, packager, email, reader, today)

\* mutant of WriteBack: the rows collected so far are written even when the
\* scan raised
WriteBack_partial(content, st) == [status |-> st.status, content |-> WriteLines(st.output)]

\* the file is opened for writing only when the scan returned
WriteBack(content, st) ==
    IF st.status # "ok" THEN [status |-> st.status, content |-> content]
    ELSE [status |-> "ok", content |-> WriteLines(st.output)]

\* update_spec: status "ok" (returned), "uptodate" (DgrocException 'Spec already
\* up to date') or "error" (any other exception), and the content of the file
\* afterwards.  parse_ok is the outcome of rpm.spec(spec_file).
update_spec(content, commit_hash, archive_name, packager, email, reader, today, parse_ok) ==
    IF ~parse_ok THEN [status |-> "error", content |-> content]
    ELSE WriteBack(content, ScanRows(ScanInit, ReadLines(content), commit_hash, archive_name,
                                     packager, email, reader, today))

-----------------------------------------------------------------------------
(* _get_archive_name and generate_archive                                  *)

TarGz == <<".","t","a","r",".","g","z">>
TarBz2 == <<".","t","a","r",".","b","z","2">>

\* the alternatives of the group (\.gz|\.bz2) after \.tar
ArchiveSuffixes == {TarGz, TarBz2}

\* the positions where a match of [^\s]*\.tar(\.gz|\.bz2) that starts at
\* `from` can end
MatchEnds(text, from) ==
    {e \in from..Len(text) :
        /\ \E suf \in ArchiveSuffixes :
              /\ e + 1 - Len(suf) >= from
              /\ SubSeq(text, e + 1 - Len(suf), e) = suf
        /\ \A j \in from..e : text[j] \notin Whitespace}

\* the match of project + r"\-[^\s]*\.tar(\.gz|\.bz2)" that starts at i:
\* the star is greedy, so the match ends at the last possible position
MatchAt(text, project, i) ==
    IF /\ i + Len(project) <= Len(text)
       /\ SubSeq(text, i, i + Len(project)) = project \o <<"-">>
       /\ MatchEnds(text, i + Len(project) + 1) # {}
    THEN SubSeq(text, i, SetMax(MatchEnds(text, i + Len(project) + 1)))
    ELSE <<>>

MatchStarts(text, project) == {i \in 1..Len(text) : MatchAt(text, project, i) # <<>>}

\* re.search(...).group(), the leftmost match, and <<>> when search is None
ReSearch(project, text) ==
    IF MatchStarts(text, project) = {} THEN <<>>
    ELSE MatchAt(text, project, SetMin(MatchStarts(text, project)))

\* if search: name = search.group()
KeepMatch(name, found) == IF found # <<>> THEN found ELSE name

\* for line in out: ...
RECURSIVE ScanOutput(_, _, _)
ScanOutput(out, project, name) ==
    IF out = <<>> THEN name
    ELSE ScanOutput(Tail(out), project, KeepMatch(name, ReSearch(project, out[1])))

\* the name, or DgrocException('No archive name found.')
NameResult(name) == [found |-> name # <<>>, name |-> name]

_get_archive_name(out, project) == NameResult(ScanOutput(out, project, <<>>))

\* out = pull.communicate(): the pair (stdout, stderr), each the whole text of
\* its stream
Communicate(run) == <<WriteLines(run.stdout), WriteLines(run.stderr)>>

\* the branch `if not archive_name` of generate_archive, after the command ran
\* in git_folder: on either exception the working directory is not restored
ResolveExplicit(res, files, srcdir, old_cwd, git_folder) ==
    IF ~res.found
    THEN [status |-> "DgrocException", msg |-> "No archive name found.", archive_name |-> <<>>,
          cwd |-> git_folder, folder_files |-> files, sourcedir |-> srcdir]
    ELSE IF res.name \notin files
    THEN [status |-> "DgrocException", msg |-> "No archive to generate SRPM.",
          archive_name |-> res.name,
          cwd |-> git_folder, folder_files |-> files, sourcedir |-> srcdir]
    ELSE [status |-> "ok", msg |-> "", archive_name |-> res.name,
          cwd |-> old_cwd, folder_files |-> files \ {res.name},
          sourcedir |-> srcdir \cup {res.name}]

\* the deterministic path: the provider's command writes the archive into the
\* source directory when it succeeds; its exit status is not looked at
ResolveDefault(archive_name, run, files, srcdir, old_cwd) ==
    [status |-> "ok", msg |-> "", archive_name |-> archive_name,
     cwd |-> old_cwd, folder_files |-> files,
     sourcedir |-> IF run.cmd_ok THEN srcdir \cup {archive_name} ELSE srcdir]

\* generate_archive: run is what the archive command did (its output, the
\* files it left in the working copy, its success)
generate_archive(has_cmd, project, git_folder, commit_hash, run, old_cwd, files, srcdir) ==
    IF has_cmd
    THEN ResolveExplicit(_get_archive_name(Communicate(run), project),
                         files \cup run.created, srcdir, old_cwd, git_folder)
    ELSE ResolveDefault(project \o <<"-">> \o commit_hash \o <<".","t","a","r">>,
                        run, files, srcdir, old_cwd)

-----------------------------------------------------------------------------
(* Inputs of update_spec                                                   *)

MaxCalls == 2

VersionLine == <<"V","e","r","s","i","o","n",":"," ","1",".","0","\n">>
SourceLine == <<"S","o","u","r","c","e","0",":"," ","a",".","t","a","r","\n">>
ChangelogLine == <<"%","c","h","a","n","g","e","l","o","g","\n">>
OldEntryLine == <<"-"," ","x"," "," ","\n">>
LowerReleaseLine == <<"r","e","l","e","a","s","e",":"," ","1","%","{","?","d","i","s","t","}","\n">>
RelPlain == <<"R","e","l","e","a","s","e",":"," ","1","%","{","?","d","i","s","t","}","\n">>
RelCarry == <<"R","e","l","e","a","s","e",":"," ","0",".","9","%","{","?","d","i","s","t","}","\n">>
RelNoDist == <<"R","e","l","e","a","s","e",":"," ","3","\n">>
RelAlpha == <<"R","e","l","e","a","s","e",":"," ","1",".","r","c","1","%","{","?","d","i","s","t","}","\n">>
RelPrior == <<"R","e","l","e","a","s","e",":"," "," "," "," "," "," "," "," ","2",".","2","0","1","4","0","1","0","1","g","i","t","1","a","2","b","3","c","4","d","%","{","?","d","i","s","t","}","\n">>
RelPadded == <<"R","e","l","e","a","s","e",":"," ","0","7","%","{","?","d","i","s","t","}"," "," ","\n">>
RelTagMid == <<"R","e","l","e","a","s","e",":"," ","0",".","g","i","t",".","4","%","{","?","d","i","s","t","}","\n">>

ReleaseLines == {RelPlain, RelCarry, RelNoDist, RelAlpha, RelPrior, RelPadded, RelTagMid}

\* spec files: with and without a changelog, and two whose release tag is
\* written in lower case (rpm reads tags without regard to case)
SpecFiles ==
    {VersionLine \o r \o SourceLine \o ChangelogLine \o OldEntryLine : r \in ReleaseLines}
    \cup {VersionLine \o r \o SourceLine : r \in ReleaseLines}
    \cup {VersionLine \o LowerReleaseLine \o SourceLine,
          VersionLine \o LowerReleaseLine \o SourceLine \o ChangelogLine \o OldEntryLine}

Dates == {[ymd |-> <<"2","0","1","4","0","1","0","1">>,
           text |-> <<"W","e","d"," ","J","a","n"," ","0","1"," ","2","0","1","4">>],
          [ymd |-> <<"2","0","1","4","0","1","0","2">>,
           text |-> <<"T","h","u"," ","J","a","n"," ","0","2"," ","2","0","1","4">>]}

GitCommits == {<<"1","a","2","b","3","c","4","d">>, <<"9","f","8","e","7","d","6","c">>}
HgCommits == {<<"0","1","2","3","4","5","6","7","8","9","a","b">>}
Readers == {GitReader, MercurialReader}

\* the identifiers reader.commit_hash can return
CommitsOf(reader) == IF reader = GitReader THEN GitCommits ELSE HgCommits

Packager == <<"p","k","g">>
Email == <<"p","@","x">>
ProjectName == <<"f","o","o">>

\* "%s-%s.tar" % (project, commit_hash)
DefaultArchiveName(project, commit_hash) == project \o <<"-">> \o commit_hash \o <<".","t","a","r">>

MaxOutLines == 2
MaxErrLines == 1

LineBuilding == <<"b","u","i","l","d","i","n","g",".",".",".">>
LineCreated == <<"f","o","o","-","g","i","t","1","a","2","b","3","c","4",".","t","a","r",".","g","z"," ","c","r","e","a","t","e","d">>
LineTar == <<"f","o","o","-","1",".","t","a","r">>
LineGz == <<"w","r","o","t","e"," ","f","o","o","-","1",".","t","a","r",".","g","z">>
LineBz2 == <<"f","o","o","-","2",".","t","a","r",".","b","z","2">>
LineTwo == <<"f","o","o","-","3",".","t","a","r",".","g","z"," ","f","o","o","-","4",".","t","a","r",".","g","z">>
NameGz == <<"f","o","o","-","1",".","t","a","r",".","g","z">>
NameBz2 == <<"f","o","o","-","2",".","t","a","r",".","b","z","2">>

\* lines an archive command may print
OutputLines == {LineBuilding, LineCreated, LineTar, LineGz, LineBz2, LineTwo}

LineLists(n) == UNION {[1..k -> OutputLines] : k \in 0..n}

\* what a run of the archive command does: the lines on its two streams, the
\* archive files it leaves in the working copy, whether it succeeded
Runs == [stdout : LineLists(MaxOutLines), stderr : LineLists(MaxErrLines),
         created : {{}, {NameGz}, {NameBz2}}, cmd_ok : BOOLEAN, has_cmd : BOOLEAN]

NoRun == [stdout |-> <<>>, stderr |-> <<>>, created |-> {}, cmd_ok |-> TRUE, has_cmd |-> FALSE]

\* directories: where the process starts, and the working copy of section i
StartDir == <<"start", 0>>
FolderOf(i) == <<"git_folder", i>>

NoArchiveCall == [called |-> FALSE, fn |-> "", found |-> FALSE, name |-> <<>>, status |-> "ok"]

-----------------------------------------------------------------------------
(* generate_new_srpm and main: data                                        *)

NumProjects == 2
MaxRounds == 3
MaxHandles == 3

\* config.sections(): position 1 is the section main, position i + 1 the
\* section of project i
LastSection == NumProjects + 1
SectionName(i) == <<"p">> \o PyStr(i)

\* has_option(...) is False
NoOption == <<>>

Scms == {"absent", "git", "hg", "svn"}

\* `hash` is the option <scm>_hash, `odd_hash` the option whose name is the
\* literal '%s_hash  % reader.short' of lines 339 and 343
Configs == [scm : Scms, has_folder : BOOLEAN, has_url : BOOLEAN, has_spec : BOOLEAN,
            has_cmd : BOOLEAN, hash : {NoOption} \cup GitCommits \cup HgCommits,
            odd_hash : {NoOption}]

NoCfg == [scm |-> "absent", has_folder |-> FALSE, has_url |-> FALSE, has_spec |-> FALSE,
          has_cmd |-> FALSE, hash |-> NoOption, odd_hash |-> NoOption]

ReaderOf(scm) == IF scm = "hg" THEN MercurialReader ELSE GitReader

\* the value generate_new_srpm returns: None, or the path of the built srpm,
\* which names the project and the commit it was built from
NoSrpm == [built |-> FALSE, project |-> 0, commit |-> <<>>]
Srpm(project, commit_hash) == [built |-> TRUE, project |-> project, commit |-> commit_hash]

NoRetry == [done |-> FALSE, ret |-> NoSrpm]
NoOps == [calls |-> 0, inits |-> 0, clones |-> 0, pulls |-> 0, pull_fails |-> 0, deletes |-> 0]
NoMon == [rounds |-> 0, queried |-> <<>>, statuses |-> <<>>]
NoBuilds == [bound |-> FALSE, list |-> <<>>]

\* the spec files of the projects main processes
MainSpecFiles ==
    {VersionLine \o RelPlain \o SourceLine \o ChangelogLine \o OldEntryLine,
     VersionLine \o RelPrior \o SourceLine \o ChangelogLine \o OldEntryLine,
     VersionLine \o RelCarry \o SourceLine}

\* what the archive command of a project may do: print and leave its archive,
\* print its name without leaving it, or fail without naming it
MainRuns(project) ==
    {[stdout |-> <<LineBuilding, project \o <<"-","1">> \o TarGz>>, stderr |-> <<>>,
      created |-> {project \o <<"-","1">> \o TarGz}, cmd_ok |-> TRUE, has_cmd |-> FALSE],
     [stdout |-> <<LineBuilding, project \o <<"-","1">> \o TarGz>>, stderr |-> <<>>,
      created |-> {}, cmd_ok |-> TRUE, has_cmd |-> FALSE],
     [stdout |-> <<LineBuilding>>, stderr |-> <<>>,
      created |-> {}, cmd_ok |-> FALSE, has_cmd |-> FALSE]}

\* the statuses the build service reports: running stands for every status
\* that is not one of the three final ones
Statuses == {"running", "succeeded", "failed", "skipped"}

\* the state of the variables of generate_new_srpm between two calls
GnsIdle ==
    /\ cfg = NoCfg
    /\ first = TRUE
    /\ folder_exists = FALSE
    /\ commit = <<>>
    /\ gns_archive = <<>>
    /\ saved_cwd = StartDir
    /\ ret = NoSrpm
    /\ retry = NoRetry
    /\ ops = NoOps

\* main is not running
MainIdle ==
    /\ GnsIdle
    /\ pc = "idle"
    /\ idx = 0
    /\ args = [srpmonly |-> FALSE, monitoring |-> TRUE]
    /\ err = ""
    /\ attempted = <<>>
    /\ srpms = [i \in 1..NumProjects |-> NoSrpm]
    /\ submitted = <<>>
    /\ build_ids = NoBuilds
    /\ mon = NoMon

-----------------------------------------------------------------------------
(* Specification of update_spec called repeatedly on one spec file         *)

NoCall == [called |-> FALSE, status |-> "ok", commit_hash |-> <<>>, reader |-> GitReader,
           parse_ok |-> TRUE, before |-> <<>>, prev_status |-> "none", prev_commit |-> <<>>,
           original |-> <<>>, history |-> <<>>]

InitUpdate ==
    /\ spec_file \in SpecFiles
    /\ us_last = NoCall
    /\ us_calls = 0
    /\ ga_in = NoRun
    /\ ga_last = NoArchiveCall
    /\ cwd = StartDir
    /\ folder_files = {}
    /\ sourcedir = {}
    /\ MainIdle

UpdateSpecCall ==
    /\ us_calls < MaxCalls
    /\ \E reader \in Readers, today \in Dates, parse_ok \in BOOLEAN :
       \E commit_hash \in CommitsOf(reader) :
          LET res == update_spec(spec_file, commit_hash,
                                 DefaultArchiveName(ProjectName, commit_hash),
                                 Packager, Email, reader, today, parse_ok)
          IN /\ spec_file' = res.content
             /\ us_last' = [called |-> TRUE, status |-> res.status, commit_hash |-> commit_hash,
                            reader |-> reader, parse_ok |-> parse_ok, before |-> spec_file,
                            prev_status |-> IF us_last.called THEN us_last.status ELSE "none",
                            prev_commit |-> us_last.commit_hash,
                            original |-> IF us_last.called THEN us_last.original ELSE spec_file,
                            history |-> Append(us_last.history,
                                               [status |-> res.status, reader |-> reader,
                                                commit_hash |-> commit_hash])]
             /\ us_calls' = us_calls + 1
    /\ UNCHANGED <<gaVars, fsVars, gnsVars, mainVars>>

NextUpdate == UpdateSpecCall

SpecUpdate == InitUpdate /\ [][NextUpdate]_vars

-----------------------------------------------------------------------------
(* Properties of update_spec                                               *)

\* the rows of a file content, stripped as the loop strips them
Rows(content) == LET ls == ReadLines(content) IN [i \in 1..Len(ls) |-> RStrip(ls[i])]

IsReleaseRow(row) == StartsWith(row, ReleaseKw)
HasReleaseRow(content) == \E i \in 1..Len(Rows(content)) : IsReleaseRow(Rows(content)[i])

\* the index in the output of the input row i: every changelog marker before
\* it added three rows
OutIndex(rows, i) == i + 3 * Cardinality({j \in 1..(i - 1) : StartsWith(rows[j], ChangelogKw)})

\* the Release value of a row, the distribution macro stripped
C4Value(row) ==
    LET rest == Strip(SubSeq(row, Len(ReleaseKw) + 1, Len(row)))
        k == Find(rest, DistOpen)
    IN IF k = 0 THEN rest ELSE SubSeq(rest, 1, k - 1)

LastComponent(v) == LET l == Split(v, <<".">>) IN l[Len(l)]

C4Pre(row, reader, commit_hash) ==
    /\ IsReleaseRow(row)
    /\ IsDigit(LastComponent(C4Value(row)))
    /\ ~Contains(C4Value(row), reader.short)
    /\ ~Contains(row, commit_hash)

C4Expected(row, reader, commit_hash, ymd) ==
    LET v == C4Value(row)
        n == LastComponent(v)
    IN ReleasePad \o SubSeq(v, 1, Len(v) - Len(n)) \o PyStr(PyInt(n) + 1)
       \o <<".">> \o ymd \o reader.short \o commit_hash \o DistMacro

\* C4: a Release value whose last component is a number N, without backend
\* tag and without the commit identifier, is rewritten to the same value with
\* N+1 in place of N, followed by .<YYYYMMDD><backend_tag><commit_id> and the
\* distribution macro.
Inv_C4 ==
    (us_last.called /\ us_last.status = "ok") =>
        LET before == Rows(us_last.before)
            after == Rows(spec_file)
        IN \A i \in 1..Len(before) :
              C4Pre(before[i], us_last.reader, us_last.commit_hash) =>
                 \E d \in Dates :
                    after[OutIndex(before, i)] =
                       C4Expected(before[i], us_last.reader, us_last.commit_hash, d.ymd)

Witness_C4 ==
    /\ us_last.called /\ us_last.status = "ok"
    /\ \E i \in 1..Len(Rows(us_last.before)) :
          /\ C4Pre(Rows(us_last.before)[i], us_last.reader, us_last.commit_hash)
          /\ Len(LastComponent(C4Value(Rows(us_last.before)[i]))) < Len(C4Value(Rows(us_last.before)[i]))

ReleaseRowHasCommit(content, commit_hash) ==
    \E i \in 1..Len(Rows(content)) :
        IsReleaseRow(Rows(content)[i]) /\ Contains(Rows(content)[i], commit_hash)

\* C5: when the Release: line already contains the commit identifier,
\* update_spec raises 'Spec already up to date' and the file keeps its content.
Inv_C5 ==
    (us_last.called /\ us_last.parse_ok
       /\ ReleaseRowHasCommit(us_last.before, us_last.commit_hash)) =>
        (us_last.status = "uptodate" /\ spec_file = us_last.before)

Witness_C5 ==
    /\ us_last.called /\ us_last.parse_ok /\ us_last.status = "uptodate"
    /\ ReleaseRowHasCommit(us_last.before, us_last.commit_hash)
    /\ us_last.prev_status = "none"

SecondCallSameCommit ==
    /\ us_last.called /\ us_last.parse_ok
    /\ us_last.prev_status = "ok"
    /\ us_last.prev_commit = us_last.commit_hash

\* C6 as stated: a second call with the same commit identifier after a
\* successful one raises 'Spec already up to date' and leaves the content of
\* the file as the first call wrote it.
Orig_C6 ==
    SecondCallSameCommit => (us_last.status = "uptodate" /\ spec_file = us_last.before)

\* C6 amended: the same for a spec file that has a row starting with
\* Release:, and without such a row the second call still leaves the content
\* as the first call wrote it.
Inv_C6 ==
    SecondCallSameCommit =>
        /\ spec_file = us_last.before
        /\ HasReleaseRow(us_last.before) => us_last.status = "uptodate"

Witness_C6 ==
    /\ SecondCallSameCommit
    /\ HasReleaseRow(us_last.before)
    /\ us_last.status = "uptodate"

-----------------------------------------------------------------------------
(* Specification of one archive-name resolution on a drawn command run     *)

InitArchive ==
    /\ ga_in \in Runs
    /\ ga_last = NoArchiveCall
    /\ cwd = StartDir
    /\ folder_files = {}
    /\ sourcedir = {}
    /\ spec_file = <<>>
    /\ us_last = NoCall
    /\ us_calls = 0
    /\ MainIdle

\* _get_archive_name applied to the lines of the standard output
GetArchiveNameCall ==
    /\ ~ga_last.called
    /\ ga_last' = [called |-> TRUE, fn |-> "_get_archive_name",
                   found |-> _get_archive_name(ga_in.stdout, ProjectName).found,
                   name |-> _get_archive_name(ga_in.stdout, ProjectName).name,
                   status |-> IF _get_archive_name(ga_in.stdout, ProjectName).found
                              THEN "ok" ELSE "DgrocException"]
    /\ UNCHANGED <<ga_in, fsVars, usVars, gnsVars, mainVars>>

ArchiveCallRecord(res) ==
    [called |-> TRUE, fn |-> "generate_archive",
     found |-> res.archive_name # <<>>, name |-> res.archive_name, status |-> res.status]

ApplyArchive(res) ==
    /\ ga_last' = ArchiveCallRecord(res)
    /\ cwd' = res.cwd
    /\ folder_files' = res.folder_files
    /\ sourcedir' = res.sourcedir

\* generate_archive on the drawn run of the archive command
GenerateArchiveCall ==
    /\ ~ga_last.called
    /\ \E commit_hash \in GitCommits :
          ApplyArchive(generate_archive(ga_in.has_cmd, ProjectName, FolderOf(1), commit_hash,
                                        ga_in, cwd, folder_files, sourcedir))
    /\ UNCHANGED <<ga_in, usVars, gnsVars, mainVars>>

NextArchive == GetArchiveNameCall \/ GenerateArchiveCall

SpecArchive == InitArchive /\ [][NextArchive]_vars

-----------------------------------------------------------------------------
(* Properties of the archive-name resolution                               *)

\* the last of the lines that has a match
LastMatchingLine(lines, project) ==
    lines[SetMax({i \in 1..Len(lines) : ReSearch(project, lines[i]) # <<>>})]

AnyLineMatches(lines, project) == \E i \in 1..Len(lines) : ReSearch(project, lines[i]) # <<>>

\* C7: with an explicit archive command, the name generate_archive resolves
\* from the command's output is the match on the last output line that
\* matches, never one from an earlier line.
Orig_C7 ==
    (ga_last.called /\ ga_last.fn = "generate_archive" /\ ga_in.has_cmd
       /\ ga_in.stderr = <<>> /\ AnyLineMatches(ga_in.stdout, ProjectName)) =>
        ga_last.name = ReSearch(ProjectName, LastMatchingLine(ga_in.stdout, ProjectName))

\* a token <project>-<non-whitespace>.tar, which .gz or .bz2 may follow
HasToken(line, project) ==
    \E i \in 1..Len(line), e \in 1..Len(line) :
        /\ i + Len(project) < e + 1 - 4
        /\ SubSeq(line, i, i + Len(project)) = project \o <<"-">>
        /\ SubSeq(line, e - 3, e) = <<".","t","a","r">>
        /\ \A j \in i..e : line[j] \notin Whitespace

\* C8: _get_archive_name resolves a name exactly when some output line has a
\* token <project>-<non-whitespace>.tar, optionally followed by .gz or .bz2,
\* and raises 'No archive name found.' otherwise.
Orig_C8 ==
    (ga_last.called /\ ga_last.fn = "_get_archive_name") =>
        (ga_last.found <=> \E i \in 1..Len(ga_in.stdout) : HasToken(ga_in.stdout[i], ProjectName))

-----------------------------------------------------------------------------
(* generate_new_srpm and main: actions                                     *)

Init ==
    /\ pc = "start"
    /\ idx = 1
    /\ args \in [srpmonly : BOOLEAN, monitoring : BOOLEAN]
    /\ GnsIdle
    /\ err = ""
    /\ attempted = <<>>
    /\ srpms = [i \in 1..NumProjects |-> NoSrpm]
    /\ submitted = <<>>
    /\ build_ids = NoBuilds
    /\ mon = NoMon
    /\ spec_file = <<>>
    /\ us_last = NoCall
    /\ us_calls = 0
    /\ ga_in = NoRun
    /\ ga_last = NoArchiveCall
    /\ cwd = StartDir
    /\ folder_files = {}
    /\ sourcedir = {}

\* main, lines 473-485: the section main must give username and email
MainReadConfig ==
    /\ pc = "start"
    /\ \E has_username \in BOOLEAN, has_email \in BOOLEAN :
          /\ pc' = IF has_username /\ has_email THEN "main_loop" ELSE "crashed"
          /\ err' = IF has_username /\ has_email THEN "" ELSE "DgrocException in main"
    /\ UNCHANGED <<idx, args, attempted, srpms, submitted, build_ids, mon>>
    /\ UNCHANGED <<usVars, gaVars, fsVars, gnsVars>>

\* main, lines 489-490: the section main is skipped
MainSkipMain ==
    /\ pc = "main_loop"
    /\ idx = 1
    /\ idx' = 2
    /\ UNCHANGED <<pc, args, err, attempted, srpms, submitted, build_ids, mon>>
    /\ UNCHANGED <<usVars, gaVars, fsVars, gnsVars>>

\* main, lines 491-493: generate_new_srpm(config, project) is called for the
\* next section; its options, its working copy and its spec file are what
\* the configuration and the disk hold for it
MainCallGenerate ==
    /\ pc = "main_loop"
    /\ idx \in 2..LastSection
    /\ \E c \in Configs, exists \in BOOLEAN, content \in MainSpecFiles :
          /\ cfg' = c
          /\ folder_exists' = exists
          /\ spec_file' = content
    /\ first' = TRUE
    /\ ops' = [NoOps EXCEPT !.calls = 1]
    /\ attempted' = Append(attempted, idx - 1)
    /\ pc' = "gns_check"
    /\ UNCHANGED <<idx, args, err, srpms, submitted, build_ids, mon>>
    /\ UNCHANGED <<commit, gns_archive, saved_cwd, ret, retry>>
    /\ UNCHANGED <<us_last, us_calls, gaVars, fsVars>>

\* lines 282-306: the exception raised, "" when none
CheckResult(c, exists, init_ok) ==
    IF c.scm = "svn" THEN "unknown scm"
    ELSE IF ~init_ok THEN "ImportError"
    ELSE IF ~c.has_folder THEN "no folder option"
    ELSE IF ~c.has_url /\ ~exists THEN "no url option and no folder"
    ELSE IF ~c.has_spec THEN "no spec_file option"
    ELSE ""

\* mutant of AfterCheck: a DgrocException of the checks ends the run
AfterCheck_fatal(e) ==
    /\ err' = e
    /\ pc' = IF e = "" THEN "gns_clone" ELSE "crashed"

AfterCheck(e) ==
    /\ err' = e
    /\ pc' = IF e = "" THEN "gns_clone" ELSE IF e = "ImportError" THEN "crashed" ELSE "main_except"

\* mutant of InitCalled: the backend is initialised before the scm is checked
InitCalled_always(c) == TRUE

\* line 291, reader.init(), is reached unless line 287 raised
InitCalled(c) == c.scm # "svn"

\* generate_new_srpm, lines 282-306
GnsCheck ==
    /\ pc = "gns_check"
    /\ \E init_ok \in BOOLEAN : AfterCheck(CheckResult(cfg, folder_exists, init_ok))
    /\ ops' = [ops EXCEPT !.inits = IF InitCalled(cfg) THEN @ + 1 ELSE @]
    /\ UNCHANGED <<idx, args, attempted, srpms, submitted, build_ids, mon>>
    /\ UNCHANGED <<cfg, first, folder_exists, commit, gns_archive, saved_cwd, ret, retry>>
    /\ UNCHANGED <<usVars, gaVars, fsVars>>

\* generate_new_srpm, lines 308-316: clone when the folder does not exist; an
\* exception of the clone is not a DgrocException
GnsClone ==
    /\ pc = "gns_clone"
    /\ \/ /\ folder_exists
          /\ pc' = "gns_pull"
          /\ UNCHANGED <<folder_exists, ops, err>>
       \/ /\ ~folder_exists
          /\ \E clone_ok \in BOOLEAN :
                /\ folder_exists' = clone_ok
                /\ pc' = IF clone_ok THEN "gns_pull" ELSE "crashed"
                /\ err' = IF clone_ok THEN "" ELSE "clone failed"
          /\ ops' = [ops EXCEPT !.clones = @ + 1]
    /\ UNCHANGED <<idx, args, attempted, srpms, submitted, build_ids, mon>>
    /\ UNCHANGED <<cfg, first, commit, gns_archive, saved_cwd, ret, retry>>
    /\ UNCHANGED <<usVars, gaVars, fsVars>>

\* mutant of RetryAllowed: every failed pull re-clones and retries
RetryAllowed_always(is_first) == TRUE

\* if first: ... shutil.rmtree(git_folder); generate_new_srpm(..., first=False)
RetryAllowed(is_first) == is_first

\* generate_new_srpm, lines 318-330: the pull, and on a non-zero status of a
\* first call the deletion of the working copy and the recursive call
GnsPull ==
    /\ pc = "gns_pull"
    /\ saved_cwd' = cwd
    /\ \E pull_ok \in BOOLEAN :
          /\ ops' = [ops EXCEPT
                       !.pulls = @ + 1,
                       !.pull_fails = IF pull_ok THEN @ ELSE @ + 1,
                       !.deletes = IF ~pull_ok /\ RetryAllowed(first) THEN @ + 1 ELSE @,
                       !.calls = IF ~pull_ok /\ RetryAllowed(first) THEN @ + 1 ELSE @]
          /\ pc' = IF pull_ok THEN "gns_hash"
                   ELSE IF RetryAllowed(first) THEN "gns_check" ELSE "gns_return"
          /\ first' = IF ~pull_ok /\ RetryAllowed(first) THEN FALSE ELSE first
          /\ folder_exists' = IF ~pull_ok /\ RetryAllowed(first) THEN FALSE ELSE folder_exists
          /\ folder_files' = IF ~pull_ok /\ RetryAllowed(first) THEN {} ELSE folder_files
    /\ ret' = NoSrpm
    /\ UNCHANGED <<idx, args, err, attempted, srpms, submitted, build_ids, mon>>
    /\ UNCHANGED <<cfg, commit, gns_archive, retry>>
    /\ UNCHANGED <<usVars, gaVars, cwd, sourcedir>>

\* lines 336-344: whether the commit changed, and the options afterwards
ChangeDetection(c, commit_hash) ==
    IF c.hash = NoOption
    THEN [outcome |-> "changed", cfg |-> [c EXCEPT !.odd_hash = commit_hash]]
    ELSE IF c.hash = commit_hash THEN [outcome |-> "unchanged", cfg |-> c]
    ELSE IF c.odd_hash = NoOption THEN [outcome |-> "NoOptionError", cfg |-> c]
    ELSE IF c.odd_hash # commit_hash THEN [outcome |-> "changed", cfg |-> c]
    ELSE [outcome |-> "unchanged", cfg |-> c]

AfterDetection(d) ==
    /\ cfg' = d.cfg
    /\ pc' = IF d.outcome = "changed" THEN "gns_archive"
             ELSE IF d.outcome = "unchanged" THEN "gns_return" ELSE "crashed"
    /\ err' = IF d.outcome = "NoOptionError" THEN "NoOptionError" ELSE ""

\* generate_new_srpm, lines 332-347: the commit is read and compared
GnsHash ==
    /\ pc = "gns_hash"
    /\ \E commit_hash \in CommitsOf(ReaderOf(cfg.scm)) :
          /\ commit' = commit_hash
          /\ AfterDetection(ChangeDetection(cfg, commit_hash))
    /\ ret' = NoSrpm
    /\ UNCHANGED <<idx, args, attempted, srpms, submitted, build_ids, mon>>
    /\ UNCHANGED <<first, folder_exists, gns_archive, saved_cwd, retry, ops>>
    /\ UNCHANGED <<usVars, gaVars, fsVars>>

AfterArchive(res) ==
    /\ gns_archive' = res.archive_name
    /\ cwd' = res.cwd
    /\ folder_files' = res.folder_files
    /\ sourcedir' = res.sourcedir
    /\ err' = res.msg
    /\ pc' = IF res.status = "ok" THEN "gns_spec" ELSE "main_except"

\* generate_new_srpm, line 350
GnsArchive ==
    /\ pc = "gns_archive"
    /\ \E run \in MainRuns(SectionName(idx - 1)) :
          AfterArchive(generate_archive(cfg.has_cmd, SectionName(idx - 1), FolderOf(idx - 1),
                                        commit, run, cwd, folder_files, sourcedir))
    /\ UNCHANGED <<idx, args, attempted, srpms, submitted, build_ids, mon>>
    /\ UNCHANGED <<cfg, first, folder_exists, commit, saved_cwd, ret, retry, ops>>
    /\ UNCHANGED <<usVars, gaVars>>

AfterUpdateSpec(res) ==
    /\ spec_file' = res.content
    /\ err' = IF res.status = "uptodate" THEN "Spec already up to date"
              ELSE IF res.status = "error" THEN "update_spec failed" ELSE ""
    /\ pc' = IF res.status = "ok" THEN "gns_build"
             ELSE IF res.status = "uptodate" THEN "main_except" ELSE "crashed"

\* generate_new_srpm, lines 352-363
GnsUpdateSpec ==
    /\ pc = "gns_spec"
    /\ \E today \in Dates, parse_ok \in BOOLEAN :
          AfterUpdateSpec(update_spec(spec_file, commit, gns_archive, Packager, Email,
                                      ReaderOf(cfg.scm), today, parse_ok))
    /\ UNCHANGED <<idx, args, attempted, srpms, submitted, build_ids, mon>>
    /\ UNCHANGED <<us_last, us_calls, gaVars, fsVars, gnsVars>>

\* generate_new_srpm, lines 365-405: rpmbuild -bs, os.chdir(cwd), and the
\* path after 'Wrote:' when the build succeeded
GnsBuild ==
    /\ pc = "gns_build"
    /\ \E build_ok \in BOOLEAN :
          ret' = IF build_ok THEN Srpm(idx - 1, commit) ELSE NoSrpm
    /\ cwd' = saved_cwd
    /\ pc' = "gns_return"
    /\ UNCHANGED <<idx, args, err, attempted, srpms, submitted, build_ids, mon>>
    /\ UNCHANGED <<cfg, first, folder_exists, commit, gns_archive, saved_cwd, retry, ops>>
    /\ UNCHANGED <<usVars, gaVars, folder_files, sourcedir>>

\* lines 329-330: the recursive call returned; its value is dropped and the
\* first call returns None
GnsRetryReturn ==
    /\ pc = "gns_return"
    /\ ~first
    /\ retry' = [done |-> TRUE, ret |-> ret]
    /\ ret' = NoSrpm
    /\ first' = TRUE
    /\ UNCHANGED <<pc, idx, args, err, attempted, srpms, submitted, build_ids, mon>>
    /\ UNCHANGED <<cfg, folder_exists, commit, gns_archive, saved_cwd, ops>>
    /\ UNCHANGED <<usVars, gaVars, fsVars>>

\* the call is over: its variables, and the files of the section, are not
\* looked at again
ForgetCall ==
    /\ cfg' = NoCfg
    /\ first' = TRUE
    /\ folder_exists' = FALSE
    /\ commit' = <<>>
    /\ gns_archive' = <<>>
    /\ saved_cwd' = StartDir
    /\ ret' = NoSrpm
    /\ retry' = NoRetry
    /\ ops' = NoOps
    /\ spec_file' = <<>>
    /\ folder_files' = {}

\* main, lines 493-495: the call returned to main
MainCollect ==
    /\ pc = "gns_return"
    /\ first
    /\ srpms' = IF ret.built THEN [srpms EXCEPT ![idx - 1] = ret] ELSE srpms
    /\ idx' = idx + 1
    /\ pc' = "main_loop"
    /\ ForgetCall
    /\ UNCHANGED <<args, err, attempted, submitted, build_ids, mon>>
    /\ UNCHANGED <<us_last, us_calls, gaVars, cwd, sourcedir>>

\* main, lines 496-497: a DgrocException of the call is logged
MainExcept ==
    /\ pc = "main_except"
    /\ err' = ""
    /\ idx' = idx + 1
    /\ pc' = "main_loop"
    /\ ForgetCall
    /\ UNCHANGED <<args, attempted, srpms, submitted, build_ids, mon>>
    /\ UNCHANGED <<us_last, us_calls, gaVars, cwd, sourcedir>>

\* the projects that have an entry in srpms
Built == {i \in 1..NumProjects : srpms[i].built}

\* the orders in which `for project in srpms` may visit a dictionary
Orders(S) == {o \in [1..Cardinality(S) -> S] : \A i, j \in 1..Cardinality(S) : o[i] = o[j] => i = j}

\* main, lines 499-501
MainNoSrpms ==
    /\ pc = "main_loop"
    /\ idx = LastSection + 1
    /\ Built = {}
    /\ pc' = "done"
    /\ UNCHANGED <<idx, args, err, attempted, srpms, submitted, build_ids, mon>>
    /\ UNCHANGED <<usVars, gaVars, fsVars, gnsVars>>

\* main, lines 503-504
MainSrpmOnly ==
    /\ pc = "main_loop"
    /\ idx = LastSection + 1
    /\ Built # {}
    /\ args.srpmonly
    /\ pc' = "done"
    /\ UNCHANGED <<idx, args, err, attempted, srpms, submitted, build_ids, mon>>
    /\ UNCHANGED <<usVars, gaVars, fsVars, gnsVars>>

\* main, lines 506-509, when _get_copr_client raises: the DgrocException is
\* logged and build_ids is never assigned
MainCoprClientFails ==
    /\ pc = "main_loop"
    /\ idx = LastSection + 1
    /\ Built # {}
    /\ ~args.srpmonly
    /\ err' = "copr client"
    /\ pc' = "monitor"
    /\ UNCHANGED <<idx, args, attempted, srpms, submitted, build_ids, mon>>
    /\ UNCHANGED <<usVars, gaVars, fsVars, gnsVars>>

\* the handles of the submissions that did not raise, in order
RECURSIVE BuildsList(_)

\* mutant of BuildsList: the first submission that raises ends the list
BuildsList_stop(subs) ==
    IF subs = <<>> \/ ~subs[1].ok THEN <<>>
    ELSE <<subs[1].project>> \o BuildsList(Tail(subs))

BuildsList(subs) ==
    IF subs = <<>> THEN <<>>
    ELSE (IF subs[1].ok THEN <<subs[1].project>> ELSE <<>>) \o BuildsList(Tail(subs))

\* copr_build, lines 427-442: one create_new_build per entry of srpms
Submissions(order, has_copr, ok) ==
    [k \in 1..Len(order) |->
        [project |-> order[k],
         has_copr |-> has_copr[order[k]],
         target |-> IF has_copr[order[k]] THEN "copr option" ELSE "project name",
         ok |-> ok[order[k]]]]

\* main, lines 506-509, with copr_build returning its list
MainCoprBuild ==
    /\ pc = "main_loop"
    /\ idx = LastSection + 1
    /\ Built # {}
    /\ ~args.srpmonly
    /\ \E order \in Orders(Built), has_copr \in [Built -> BOOLEAN], ok \in [Built -> BOOLEAN] :
          /\ submitted' = Submissions(order, has_copr, ok)
          /\ build_ids' = [bound |-> TRUE, list |-> BuildsList(Submissions(order, has_copr, ok))]
    /\ pc' = "monitor"
    /\ UNCHANGED <<idx, args, err, attempted, srpms, mon>>
    /\ UNCHANGED <<usVars, gaVars, fsVars, gnsVars>>

\* mutant of MainNoMonitoring: the builds are polled once all the same
MainNoMonitoring_polls ==
    /\ pc = "monitor"
    /\ ~args.monitoring
    /\ pc' = "done"
    /\ mon' = [rounds |-> mon.rounds + 1, queried |-> build_ids.list,
               statuses |-> [k \in 1..Len(build_ids.list) |-> "running"]]
    /\ UNCHANGED <<idx, args, err, attempted, srpms, submitted, build_ids>>
    /\ UNCHANGED <<usVars, gaVars, fsVars, gnsVars>>

\* main, line 511, with --no-monitoring
MainNoMonitoring ==
    /\ pc = "monitor"
    /\ ~args.monitoring
    /\ pc' = "done"
    /\ UNCHANGED <<idx, args, err, attempted, srpms, submitted, build_ids, mon>>
    /\ UNCHANGED <<usVars, gaVars, fsVars, gnsVars>>

\* main, line 512: len(build_ids) of a name that was never assigned
MainMonitorUnbound ==
    /\ pc = "monitor"
    /\ args.monitoring
    /\ ~build_ids.bound
    /\ pc' = "crashed"
    /\ err' = "NameError"
    /\ UNCHANGED <<idx, args, attempted, srpms, submitted, build_ids, mon>>
    /\ UNCHANGED <<usVars, gaVars, fsVars, gnsVars>>

\* mutant of Finished: a failed build is polled again
Finished_nofail(status) == status \in {"skipped", "succeeded"}

\* status not in ('skipped', 'failed', 'succeeded')
Finished(status) == status \in {"skipped", "failed", "succeeded"}

\* check_copr_build: the builds whose status is not final, in order
RECURSIVE check_copr_build(_, _)
check_copr_build(builds_list, statuses) ==
    IF builds_list = <<>> THEN <<>>
    ELSE (IF Finished(statuses[1]) THEN <<>> ELSE <<builds_list[1]>>)
         \o check_copr_build(Tail(builds_list), Tail(statuses))

\* main, lines 513-516: one round of the loop
PollRound ==
    /\ pc = "monitor"
    /\ args.monitoring
    /\ build_ids.bound
    /\ build_ids.list # <<>>
    /\ mon.rounds < MaxRounds
    /\ \E statuses \in [1..Len(build_ids.list) -> Statuses] :
          /\ build_ids' = [build_ids EXCEPT !.list = check_copr_build(build_ids.list, statuses)]
          /\ mon' = [rounds |-> mon.rounds + 1, queried |-> build_ids.list,
                     statuses |-> statuses]
    /\ UNCHANGED <<pc, idx, args, err, attempted, srpms, submitted>>
    /\ UNCHANGED <<usVars, gaVars, fsVars, gnsVars>>

\* main, line 513: the loop ends when build_ids is empty
MonitorExit ==
    /\ pc = "monitor"
    /\ args.monitoring
    /\ build_ids.bound
    /\ build_ids.list = <<>>
    /\ pc' = "done"
    /\ UNCHANGED <<idx, args, err, attempted, srpms, submitted, build_ids, mon>>
    /\ UNCHANGED <<usVars, gaVars, fsVars, gnsVars>>

Next ==
    \/ MainReadConfig
    \/ MainSkipMain
    \/ MainCallGenerate
    \/ GnsCheck
    \/ GnsClone
    \/ GnsPull
    \/ GnsHash
    \/ GnsArchive
    \/ GnsUpdateSpec
    \/ GnsBuild
    \/ GnsRetryReturn
    \/ MainCollect
    \/ MainExcept
    \/ MainNoSrpms
    \/ MainSrpmOnly
    \/ MainCoprClientFails
    \/ MainCoprBuild
    \/ MainNoMonitoring
    \/ MainMonitorUnbound
    \/ PollRound
    \/ MonitorExit

Spec == Init /\ [][Next]_vars

-----------------------------------------------------------------------------
(* Specification of the monitoring part of main, lines 511-516, entered    *)
(* with any list of handles copr_build can return                          *)

\* the lists copr_build can return for k successful submissions
HandleLists == {[i \in 1..k |-> i] : k \in 0..MaxHandles}

InitMonitor ==
    /\ pc = "monitor"
    /\ idx = 0
    /\ args \in [srpmonly : {FALSE}, monitoring : BOOLEAN]
    /\ build_ids \in {NoBuilds} \cup {[bound |-> TRUE, list |-> l] : l \in HandleLists}
    /\ submitted = [k \in 1..Len(build_ids.list) |->
                       [project |-> build_ids.list[k], has_copr |-> FALSE,
                        target |-> "project name", ok |-> TRUE]]
    /\ GnsIdle
    /\ err = ""
    /\ attempted = <<>>
    /\ srpms = [i \in 1..NumProjects |-> NoSrpm]
    /\ mon = NoMon
    /\ spec_file = <<>>
    /\ us_last = NoCall
    /\ us_calls = 0
    /\ ga_in = NoRun
    /\ ga_last = NoArchiveCall
    /\ cwd = StartDir
    /\ folder_files = {}
    /\ sourcedir = {}

NextMonitor == MainNoMonitoring \/ MainMonitorUnbound \/ PollRound \/ MonitorExit

SpecMonitor == InitMonitor /\ [][NextMonitor]_vars

-----------------------------------------------------------------------------
(* Properties of the monitoring loop                                       *)

\* status in ('skipped', 'failed', 'succeeded')
TerminalStatuses == {"skipped", "failed", "succeeded"}

Range(l) == {l[i] : i \in 1..Len(l)}

\* the handles of q whose status in s is not terminal
StillRunning(q, s) == {q[i] : i \in {j \in 1..Len(q) : s[j] \notin TerminalStatuses}}

\* l keeps the order in which copr_build returned the handles
KeepsOrder(l) == \A i, j \in 1..Len(l) : i < j => l[i] < l[j]

MonitorState_C3 ==
    /\ (build_ids.bound /\ mon.rounds = 0) => build_ids.list = BuildsList(submitted)
    /\ mon.rounds = 1 => mon.queried = BuildsList(submitted)
    /\ mon.rounds >= 1 =>
          /\ Len(mon.statuses) = Len(mon.queried)
          /\ Range(build_ids.list) = StillRunning(mon.queried, mon.statuses)
          /\ KeepsOrder(build_ids.list)
    /\ (pc = "done" /\ args.monitoring /\ build_ids.bound) => build_ids.list = <<>>

MonitorStep_C3 ==
    /\ mon' # mon =>
          /\ pc = "monitor"
          /\ build_ids.list # <<>>
          /\ mon'.rounds = mon.rounds + 1
          /\ mon'.queried = build_ids.list
    /\ (pc = "monitor" /\ pc' = "done" /\ args.monitoring) => build_ids.list = <<>>

\* C3: the first round queries every submitted handle, each later round
\* queries exactly the handles whose status was not skipped, failed or
\* succeeded in the round before, and the loop is left exactly when no handle
\* remains, so the rounds end with the first one in which every handle still
\* monitored reports a terminal status.
Prop_C3 == []MonitorState_C3 /\ [][MonitorStep_C3]_vars

\* three handles, [running, succeeded, failed] in the first round, succeeded
\* for the remaining one in the second: the loop is left after two rounds
Witness_C3 ==
    /\ pc = "done"
    /\ args.monitoring
    /\ Len(submitted) = 3
    /\ mon.rounds = 2
    /\ mon.queried = <<1>>
    /\ mon.statuses = <<"succeeded">>
    /\ build_ids = [bound |-> TRUE, list |-> <<>>]

-----------------------------------------------------------------------------
(* Specification of main up to the end of the call of generate_new_srpm    *)
(* for the first project                                                   *)

MainFirstProject ==
    /\ idx = 2
    /\ MainCallGenerate

NextSrpm ==
    \/ MainReadConfig
    \/ MainSkipMain
    \/ MainFirstProject
    \/ GnsCheck
    \/ GnsClone
    \/ GnsPull
    \/ GnsHash
    \/ GnsArchive
    \/ GnsUpdateSpec
    \/ GnsBuild
    \/ GnsRetryReturn
    \/ MainCollect
    \/ MainExcept

SpecSrpm == Init /\ [][NextSrpm]_vars

-----------------------------------------------------------------------------
(* Properties of generate_new_srpm                                         *)

\* C1: when the first pull fails and the retry builds an srpm, the first call
\* returns that srpm, which main then collects.
Orig_C1 ==
    (pc = "gns_return" /\ first /\ retry.done /\ retry.ret.built) => ret = retry.ret

\* C2: one call of main makes at most two calls of generate_new_srpm, two
\* pulls and one deletion of the working copy; a failed first pull deletes
\* the working copy and calls again exactly once; a failed second pull ends
\* the project with no srpm, no further deletion and no further call.
Inv_C2 ==
    /\ ops.pulls <= 2
    /\ ops.deletes <= 1
    /\ ops.calls <= 2
    /\ ops.pulls <= ops.calls
    /\ ops.calls >= 1 => ops.deletes = ops.calls - 1
    /\ ops.pull_fails >= 1 => (ops.calls = 2 /\ ops.deletes = 1)
    /\ ops.pull_fails = 2 =>
          /\ pc = "gns_return"
          /\ ret = NoSrpm
          /\ srpms[idx - 1] = NoSrpm

\* both pulls failed
Witness_C2 ==
    /\ ops.pull_fails = 2
    /\ ops.pulls = 2
    /\ ops.deletes = 1
    /\ pc = "gns_return"
    /\ first

\* the step of lines 332-347
HashStep == pc = "gns_hash" /\ pc' # "gns_hash"

PersistedEqual == cfg.hash # NoOption /\ cfg.hash = commit'

\* C9: change detection returns without an srpm and without an error exactly
\* when <scm>_hash is set and equals the commit just read; otherwise the call
\* goes on to generate_archive without an error.
Orig_C9 ==
    [][HashStep =>
         /\ (pc' = "gns_return" /\ ret' = NoSrpm /\ err' = "") <=> PersistedEqual
         /\ ~PersistedEqual => (pc' = "gns_archive" /\ err' = "")]_vars

\* C10: after change detection of a project without <scm>_hash, the option
\* <scm>_hash holds the commit just read.
Orig_C10 ==
    [][(HashStep /\ cfg.hash = NoOption) => cfg'.hash = commit']_vars

-----------------------------------------------------------------------------
(* Specification of the loop of main over the sections, lines 487-497; the  *)
(* command line options are not read before the loop ends                   *)

InitLoop ==
    /\ Init
    /\ args = [srpmonly |-> FALSE, monitoring |-> TRUE]

NextLoop ==
    \/ MainReadConfig
    \/ MainSkipMain
    \/ MainCallGenerate
    \/ GnsCheck
    \/ GnsClone
    \/ GnsPull
    \/ GnsHash
    \/ GnsArchive
    \/ GnsUpdateSpec
    \/ GnsBuild
    \/ GnsRetryReturn
    \/ MainCollect
    \/ MainExcept

SpecLoop == InitLoop /\ [][NextLoop]_vars

\* the failures C11 lists that raise DgrocException
ExpectedFailures ==
    {"unknown scm", "no folder option", "no url option and no folder", "no spec_file option",
     "Spec already up to date", "No archive name found.", "No archive to generate SRPM."}

\* the call for a project is running
InCall == pc \in {"gns_check", "gns_clone", "gns_pull", "gns_hash", "gns_archive", "gns_spec",
                  "gns_build", "gns_return", "main_except"}

LoopState_C11 ==
    /\ attempted = [k \in 1..Len(attempted) |-> k]
    /\ InCall => (idx \in 2..LastSection /\ Len(attempted) = idx - 1)
    /\ (pc = "main_loop" /\ idx >= 2) => Len(attempted) = idx - 2
    /\ pc = "crashed" => err \notin ExpectedFailures
    /\ pc = "main_except" => (err \in ExpectedFailures /\ srpms[idx - 1] = NoSrpm)
    /\ (pc = "main_loop" /\ idx \in 2..LastSection) => ENABLED MainCallGenerate

\* a project that ends with an expected failure, a second failed pull or a
\* failed rpmbuild adds nothing to srpms and main goes on to the next section
LoopStep_C11 ==
    ((pc = "main_except" \/ (pc = "gns_return" /\ first /\ ~ret.built)) /\ pc' # pc) =>
        /\ pc' = "main_loop"
        /\ idx' = idx + 1
        /\ srpms' = srpms
        /\ attempted' = attempted

\* C11: every section other than main is passed to generate_new_srpm once and
\* in order; an expected failure, a second failed pull or a failed rpmbuild of
\* a project leaves no srpm for it and main goes on with the next section.
Prop_C11 == []LoopState_C11 /\ [][LoopStep_C11]_vars

\* the second project is attempted after generate_archive raised in the first
Witness_C11 ==
    /\ pc = "gns_check"
    /\ idx = 3
    /\ attempted = <<1, 2>>
    /\ ~srpms[1].built
    /\ cwd = FolderOf(1)

\* C12: for an scm option that is neither git nor hg the call raises
\* DgrocException before any init of the backend, clone, deletion of the
\* working copy or pull.
Inv_C12 ==
    (cfg.scm \notin {"absent", "git", "hg"} /\ pc # "gns_check") =>
        /\ pc = "main_except"
        /\ err = "unknown scm"
        /\ ops.inits = 0
        /\ ops.clones = 0
        /\ ops.deletes = 0
        /\ ops.pulls = 0

Witness_C12 ==
    /\ pc = "main_except"
    /\ cfg.scm = "svn"
    /\ err = "unknown scm"
    /\ ops.calls = 1

-----------------------------------------------------------------------------
(* Specification of main after the loop, lines 499-516, entered with any    *)
(* set of built srpms                                                       *)

\* the srpms dictionaries the loop can leave
SrpmsAfterLoop ==
    {m \in [1..NumProjects -> {NoSrpm} \cup {Srpm(i, c) : i \in 1..NumProjects, c \in GitCommits}] :
        \A i \in 1..NumProjects : m[i].built => m[i].project = i}

InitCopr ==
    /\ pc = "main_loop"
    /\ idx = LastSection + 1
    /\ args \in [srpmonly : BOOLEAN, monitoring : BOOLEAN]
    /\ srpms \in SrpmsAfterLoop
    /\ attempted = [k \in 1..NumProjects |-> k]
    /\ sourcedir = {DefaultArchiveName(SectionName(i), srpms[i].commit) :
                       i \in {j \in 1..NumProjects : srpms[j].built}}
    /\ GnsIdle
    /\ err = ""
    /\ submitted = <<>>
    /\ build_ids = NoBuilds
    /\ mon = NoMon
    /\ spec_file = <<>>
    /\ us_last = NoCall
    /\ us_calls = 0
    /\ ga_in = NoRun
    /\ ga_last = NoArchiveCall
    /\ cwd = StartDir
    /\ folder_files = {}

NextCopr ==
    \/ MainNoSrpms
    \/ MainSrpmOnly
    \/ MainCoprClientFails
    \/ MainCoprBuild
    \/ MainNoMonitoring
    \/ MainMonitorUnbound
    \/ PollRound
    \/ MonitorExit

SpecCopr == InitCopr /\ [][NextCopr]_vars

-----------------------------------------------------------------------------
(* Properties of copr_build and of main after the loop                     *)

\* the handles of the submissions of subs that did not raise, in their order
OkHandles(subs) ==
    LET sel == SelectSeq(subs, LAMBDA x : x.ok)
    IN [k \in 1..Len(sel) |-> sel[k].project]

\* C13: copr_build makes one submission per project that has an srpm, to the
\* copr named by the option copr of the project when it is set and by the
\* project otherwise; a submission that raises does not prevent the later
\* ones, and the list returned holds, in order, the handles of the
\* submissions that did not raise.
Inv_C13 ==
    build_ids.bound =>
        /\ Len(submitted) = Cardinality(Built)
        /\ {submitted[k].project : k \in 1..Len(submitted)} = Built
        /\ \A k \in 1..Len(submitted) :
              submitted[k].target = IF submitted[k].has_copr THEN "copr option" ELSE "project name"
        /\ mon.rounds = 0 => build_ids.list = OkHandles(submitted)

\* the first submission raised, the second did not
Witness_C13 ==
    /\ pc = "monitor"
    /\ build_ids.bound
    /\ mon.rounds = 0
    /\ Len(submitted) = 2
    /\ ~submitted[1].ok
    /\ submitted[2].ok
    /\ submitted[1].has_copr
    /\ ~submitted[2].has_copr
    /\ build_ids.list = <<submitted[2].project>>

\* no build was submitted and no status was queried
NothingSent == submitted = <<>> /\ ~build_ids.bound /\ mon.rounds = 0

\* a submission was made for every project that has an srpm
AllSubmitted == {submitted[k].project : k \in 1..Len(submitted)} = Built

\* every handle queried was returned by a submission of this run
QueriedWereReturned == Range(mon.queried) \subseteq Range(OkHandles(submitted))

\* main returned without --srpm-only, with --no-monitoring and with srpms
NoMonitoringRunOver ==
    pc = "done" /\ ~args.monitoring /\ ~args.srpmonly /\ Built # {}

\* C14 as stated: with --srpm-only or without srpms nothing is submitted or
\* queried; with --no-monitoring every srpm is submitted and nothing is
\* queried; only handles returned by a submission of the run are queried.
Orig_C14 ==
    /\ (args.srpmonly \/ Built = {}) => NothingSent
    /\ ~args.monitoring => mon.rounds = 0
    /\ NoMonitoringRunOver => AllSubmitted
    /\ QueriedWereReturned

\* C14 amended: the same, every srpm being submitted with --no-monitoring
\* when copr_build returned, and none when it raised DgrocException.
Inv_C14 ==
    /\ (args.srpmonly \/ Built = {}) => NothingSent
    /\ ~args.monitoring => mon.rounds = 0
    /\ (NoMonitoringRunOver /\ build_ids.bound) => AllSubmitted
    /\ (NoMonitoringRunOver /\ ~build_ids.bound) => submitted = <<>>
    /\ QueriedWereReturned

Witness_C14 ==
    /\ NoMonitoringRunOver
    /\ build_ids.bound
    /\ Len(submitted) = 2
    /\ mon.rounds = 0

-----------------------------------------------------------------------------
(* Properties of sequences of update_spec calls                            *)

ReleaseRows(content) == SelectSeq(Rows(content), IsReleaseRow)

\* every call so far returned normally and no two of them were for the same
\* commit
DistinctSuccessfulCalls(h) ==
    /\ h # <<>>
    /\ \A i \in 1..Len(h) : h[i].status = "ok"
    /\ \A i, j \in 1..Len(h) : i # j => h[i].commit_hash # h[j].commit_hash

\* every call so far was for the same backend
SameBackend(h) == \A i \in 1..Len(h) : h[i].reader = h[1].reader

\* the Release row k calls later: the prefix, N + k, one token, the macro
C15Expected(row, k, call, ymd) ==
    LET v == C4Value(row)
        n == LastComponent(v)
    IN ReleasePad \o SubSeq(v, 1, Len(v) - Len(n)) \o PyStr(PyInt(n) + k)
       \o <<".">> \o ymd \o call.reader.short \o call.commit_hash \o DistMacro

\* the Release rows are as C15 says after the calls of h
ReleaseAfterCalls(h) ==
    LET before == ReleaseRows(us_last.original)
        after == ReleaseRows(spec_file)
    IN /\ Len(after) = Len(before)
       /\ \A i \in 1..Len(before) :
             IsDigit(LastComponent(C4Value(before[i]))) =>
                \E d \in Dates : after[i] = C15Expected(before[i], Len(h), h[Len(h)], d.ymd)

\* C15 as stated: after k successful calls of update_spec on one file with
\* pairwise distinct commits, a Release whose last component was the number N
\* reads prefix, N + k, one token .<YYYYMMDD><backend_tag><commit_k> and the
\* distribution macro.
Orig_C15 ==
    DistinctSuccessfulCalls(us_last.history) => ReleaseAfterCalls(us_last.history)

\* C15 amended: the same when all the calls are for the same backend.
Inv_C15 ==
    (DistinctSuccessfulCalls(us_last.history) /\ SameBackend(us_last.history)) =>
        ReleaseAfterCalls(us_last.history)

\* two successful calls on a file whose Release ended with a number
Witness_C15 ==
    /\ DistinctSuccessfulCalls(us_last.history)
    /\ SameBackend(us_last.history)
    /\ Len(us_last.history) = 2
    /\ \E i \in 1..Len(ReleaseRows(us_last.original)) :
          IsDigit(LastComponent(C4Value(ReleaseRows(us_last.original)[i])))

\* a line update_spec does not rewrite
Untouched(line) == ~StartsWith(line, ReleaseKw) /\ ~StartsWith(line, SourceKw)

\* C17: a successful update_spec writes every line that does not start with
\* Release: or Source0: as it read it, trailing whitespace included, in the
\* same order, and adds only the three lines of the new changelog entry at
\* each %changelog marker.
Orig_C17 ==
    (us_last.called /\ us_last.status = "ok") =>
        LET before == ReadLines(us_last.before)
            after == ReadLines(spec_file)
            rows == Rows(us_last.before)
        IN /\ Len(after) = OutIndex(rows, Len(before) + 1) - 1
           /\ \A i \in 1..Len(before) :
                 Untouched(before[i]) => after[OutIndex(rows, i)] = before[i]

-----------------------------------------------------------------------------
(* Properties of generate_new_srpm: working directory, archive, working copy *)

\* the call for the first project returned or raised
FirstCallOver == pc = "main_except" \/ (pc = "gns_return" /\ first) \/ (pc = "main_loop" /\ idx = 3)

\* C16: when generate_new_srpm returns or raises, the working directory is
\* the one main was in before the call.
Orig_C16 == FirstCallOver => cwd = StartDir

\* C18: when the call reaches update_spec and rpmbuild, the archive
\* generate_archive named is in the source directory of rpm.
Orig_C18 == pc \in {"gns_spec", "gns_build"} => gns_archive \in sourcedir

\* C19: a project with <scm>_folder, an existing working copy and no
\* <scm>_url still has its working copy when a call in which a pull failed
\* is over.
Orig_C19 ==
    ((pc = "main_except" \/ (pc = "gns_return" /\ first))
       /\ cfg.has_folder /\ ~cfg.has_url /\ ops.pull_fails >= 1) => folder_exists

-----------------------------------------------------------------------------
(* Property of main when copr_build raises                                 *)

\* copr_build raised DgrocException: srpms were built, --srpm-only was not
\* given and build_ids was never assigned
CoprBuildRaised ==
    /\ pc \in {"monitor", "done", "crashed"}
    /\ Built # {}
    /\ ~args.srpmonly
    /\ ~build_ids.bound

\* C20: when copr_build raises DgrocException main ends normally, without
\* querying a status and without another error, with or without monitoring.
Orig_C20 == CoprBuildRaised => (pc # "crashed" /\ mon.rounds = 0)

=============================================================================
